---- MODULE Spec2Model ----
(***************************************************************************)
(* Model of the position endpoints of the vehicle tracking API             *)
(* (src/main.py): save_position, update_position, get_positions and        *)
(* get_latest_position, run as concurrent request tasks over the shared    *)
(* vehicle_positions collection.                                           *)
(***************************************************************************)
EXTENDS Integers, Sequences, FiniteSets, TLC

\* ---------------------------------------------------------------- bounds
MaxRecords == 2    \* documents the collection may grow to
MaxClock == 1      \* readings of datetime.utcnow()
MaxLimit == 1      \* largest ?limit= value tried

\* Two request tasks run the handlers concurrently; the handlers share no
\* in-process state, so a pair shows every interaction through the store.
Tasks == {1, 2}

\* ---------------------------------------------------------------- values
\* Python / JSON / BSON values, tagged with their type.  Floats are held in
\* hundredths (1234 is 12.34), datetimes as clock readings.
PyVal(t, n, s, items) == [t |-> t, n |-> n, s |-> s, items |-> items]
PyNone == PyVal("none", 0, "", <<>>)
PyInt(k) == PyVal("int", k, "", <<>>)
PyFloat(h) == PyVal("float", h, "", <<>>)
PyStr(s) == PyVal("str", 0, s, <<>>)
PyList(items) == PyVal("list", 0, "", items)
PyDate(k) == PyVal("datetime", k, "", <<>>)
PyOid(k) == PyVal("ObjectId", k, "", <<>>)
\* a key the document does not have
KeyAbsent == PyVal("absent", 0, "", <<>>)

\* dict.get(key): None for a key the dict does not have
Get(v) == IF v = KeyAbsent THEN PyNone ELSE v

\* Python truthiness, as used by `not x` and `x or y`
Truthy(v) ==
    CASE v.t = "none" -> FALSE
      [] v.t = "absent" -> FALSE
      [] v.t = "int" -> v.n # 0
      [] v.t = "float" -> v.n # 0
      [] v.t = "str" -> v.s # ""
      [] v.t = "list" -> v.items # <<>>
      [] OTHER -> TRUE

\* Python `a or b`
Or(a, b) == IF Truthy(a) THEN a ELSE b

Abs(k) == IF k < 0 THEN -k ELSE k

\* str(float) for a float held in hundredths: shortest representation
FloatStr(h) ==
    LET a == Abs(h)
        whole == a \div 100
        frac == a % 100
        digits == IF frac % 10 = 0 THEN ToString(frac \div 10)
                  ELSE IF frac < 10 THEN "0" \o ToString(frac)
                  ELSE ToString(frac)
    IN  (IF h < 0 THEN "-" ELSE "") \o ToString(whole) \o "." \o digits

\* format(v) as an f-string does it
Format(v) ==
    CASE v.t = "float" -> FloatStr(v.n)
      [] v.t = "int" -> ToString(v.n)
      [] v.t = "str" -> v.s
      [] v.t = "none" -> "None"
      [] OTHER -> "?"

\* faulty variant: the two coordinates in the wrong order
NumericFallback_Swapped(lat, lon) ==
    PyStr(Format(lon) \o ", " \o Format(lat))

\* f"{latitude}, {longitude}"
NumericFallback(lat, lon) == PyStr(Format(lat) \o ", " \o Format(lon))

\* str(pos["_id"])
StrId(oid) == PyStr("oid" \o ToString(oid.n))


\* ------------------------------------------------------ geocoding service
\* The address sub-object of a reverse-geocoding body.
Address(suburb, village, town, city, county, state) ==
    [suburb |-> suburb, village |-> village, town |-> town,
     city |-> city, county |-> county, state |-> state]
\* {} : every .get() on it gives None
EmptyDict == Address(PyNone, PyNone, PyNone, PyNone, PyNone, PyNone)
AllEmptyStrings ==
    Address(PyStr(""), PyStr(""), PyStr(""), PyStr(""), PyStr(""), PyStr(""))

\* The parsed body: address (KeyAbsent when the key is missing) and
\* display_name.
Body(hasAddress, address, display_name) ==
    [hasAddress |-> hasAddress, address |-> address,
     display_name |-> display_name]

Bodies ==
    { Body(TRUE, Address(PyNone, PyNone, PyNone, PyStr("Springfield"),
                         PyNone, PyStr("Illinois")),
           PyStr("Springfield, Illinois, US")),
      Body(TRUE, AllEmptyStrings, PyStr("42 Wallaby Way, Sydney")) }

\* What `await client.get(url)` ends in: a response (status code, body that
\* parses or not) or an exception raised by the transport.
Response(status_code, wellformed, data) ==
    [kind |-> "response", status_code |-> status_code,
     wellformed |-> wellformed, data |-> data]
Raised(exc) ==
    [kind |-> exc, status_code |-> 0, wellformed |-> FALSE,
     data |-> Body(FALSE, EmptyDict, KeyAbsent)]
NoResp == Raised("none")

GeoOutcomes ==
    { Response(200, TRUE, b) : b \in Bodies }
    \cup { Response(200, FALSE, Body(FALSE, EmptyDict, KeyAbsent)),
           Response(503, FALSE, Body(FALSE, EmptyDict, KeyAbsent)),
           Raised("ConnectError"), Raised("ReadTimeout") }

\* resp.json() of httpx is an ordinary method: it returns the parsed body
\* (or raises on a body that does not parse), not an awaitable.
JsonIsAwaitable == FALSE

\* `data = await resp.json()`: raises JSONDecodeError on a malformed body,
\* TypeError when the parsed body is not awaitable.
AwaitRespJson(resp) ==
    IF ~resp.wellformed THEN [raised |-> TRUE, data |-> resp.data]
    ELSE IF ~JsonIsAwaitable THEN [raised |-> TRUE, data |-> resp.data]
    ELSE [raised |-> FALSE, data |-> resp.data]

\* data.get("address", {})
AddressOf(data) == IF data.hasAddress THEN data.address ELSE EmptyDict

\* The `or` chain: suburb, village, town, city, county, state,
\* display_name, numeric fallback.
PreferredLabel(data, lat, lon) ==
    LET address == AddressOf(data)
    IN  Or(Get(address.suburb),
        Or(Get(address.village),
        Or(Get(address.town),
        Or(Get(address.city),
        Or(Get(address.county),
        Or(Get(address.state),
        Or(Get(data.display_name),
           NumericFallback(lat, lon))))))))

\* faulty variant: the except branch sets nothing (`except Exception: pass`)
SaveLiveLocation_NoFallback(resp, lat, lon) ==
    IF resp.kind # "response" THEN KeyAbsent
    ELSE IF resp.status_code = 200
         THEN LET j == AwaitRespJson(resp)
              IN  IF j.raised THEN KeyAbsent
                  ELSE PreferredLabel(j.data, lat, lon)
         ELSE NumericFallback(lat, lon)

\* try/except around the geocoding call of save_position
SaveLiveLocation(resp, lat, lon) ==
    IF resp.kind # "response" THEN NumericFallback(lat, lon)
    ELSE IF resp.status_code = 200
         THEN LET j == AwaitRespJson(resp)
              IN  IF j.raised THEN NumericFallback(lat, lon)
                  ELSE PreferredLabel(j.data, lat, lon)
         ELSE NumericFallback(lat, lon)

\* try/except around the geocoding call of get_latest_position
LatestLiveLocation(resp, lat, lon) ==
    IF resp.kind # "response" THEN NumericFallback(lat, lon)
    ELSE IF resp.status_code = 200
         THEN LET j == AwaitRespJson(resp)
              IN  IF j.raised THEN NumericFallback(lat, lon)
                  ELSE PreferredLabel(j.data, lat, lon)
         ELSE NumericFallback(lat, lon)

\* ------------------------------------------------------------ request data
\* vehicle_id of a VehiclePosition body (int) and of the path (str)
BodyVehicleIds == {PyInt(1)}
PathVehicleIds == {PyStr("1"), PyStr("2")}
Latitudes == {PyFloat(1234)}
Longitudes == {PyFloat(5678)}
ClientTimestamps == {PyNone, PyDate(1)}

\* the "position" entry of the JSON body of update_position
Payloads ==
    { KeyAbsent, PyStr("12,34"),
      PyList(<<PyInt(1), PyInt(2), PyInt(3)>>),
      PyList(<<PyInt(12), PyStr("east")>>) }

Req(vehicle_id, latitude, longitude, timestamp, position, limit) ==
    [vehicle_id |-> vehicle_id, latitude |-> latitude,
     longitude |-> longitude, timestamp |-> timestamp,
     position |-> position, limit |-> limit]
NoReq == Req(PyNone, PyNone, PyNone, PyNone, PyNone, 0)

Doc(id, vehicle_id, latitude, longitude, timestamp, live_location) ==
    [_id |-> id, vehicle_id |-> vehicle_id, latitude |-> latitude,
     longitude |-> longitude, timestamp |-> timestamp,
     live_location |-> live_location]
NoDoc == Doc(KeyAbsent, KeyAbsent, KeyAbsent, KeyAbsent, KeyAbsent, KeyAbsent)


\* ------------------------------------------------------------------ state
VARIABLES
    positions,  \* db.vehicle_positions, in insertion order
    now,        \* the reading datetime.utcnow() gives
    pc,         \* per task: where the handler is suspended
    op,         \* per task: the handler it runs
    req,        \* per task: the request's parameters
    doc,        \* per task: the local `doc` / `pos`
    resp,       \* per task: the local `resp` of the geocoding call
    status,     \* per task: HTTP status of the response (0: none yet)
    result      \* per task: the returned body (message or documents)

vars == <<positions, now, pc, op, req, doc, resp, status, result>>

Message(m) == <<Doc(KeyAbsent, KeyAbsent, KeyAbsent, KeyAbsent, KeyAbsent,
                    PyStr(m))>>
SavedMessage == Message("Position saved successfully")
UpdatedMessage == Message("Position updated")
InvalidFormatMessage == Message("Invalid position format. Expected [lat, lon].")
NotFoundMessage == Message("No positions found for this vehicle")
ServerErrorMessage == Message("Internal Server Error")

Init ==
    /\ positions = <<>>
    /\ now = 0
    /\ pc = [t \in Tasks |-> "idle"]
    /\ op = [t \in Tasks |-> "none"]
    /\ req = [t \in Tasks |-> NoReq]
    /\ doc = [t \in Tasks |-> NoDoc]
    /\ resp = [t \in Tasks |-> NoResp]
    /\ status = [t \in Tasks |-> 0]
    /\ result = [t \in Tasks |-> <<>>]

\* tasks that will still call insert_one
PendingWriters == {t \in Tasks : pc[t] \in {"geocode", "insert"} /\
                                 op[t] \in {"save_position", "update_position"}}
RoomToWrite == Len(positions) + Cardinality(PendingWriters) < MaxRecords

\* ------------------------------------------------------------- the store
\* find({"vehicle_id": vehicle_id}): equality is type-sensitive
Matching(coll, vehicle_id) ==
    {i \in DOMAIN coll : coll[i].vehicle_id = vehicle_id}

\* .sort("timestamp", -1): the orders of the matching documents the store
\* may produce (documents of equal timestamp come in any order)
SortedDescending(coll, I) ==
    {f \in [1..Cardinality(I) -> I] :
        /\ \A j, k \in 1..Cardinality(I) : j # k => f[j] # f[k]
        /\ \A j, k \in 1..Cardinality(I) :
              j < k => coll[f[j]].timestamp.n >= coll[f[k]].timestamp.n}

Min(a, b) == IF a < b THEN a ELSE b

\* .limit(n): a limit of 0 is no limit
Limit(f, n) ==
    IF n = 0 THEN f ELSE [j \in 1..Min(Abs(n), Len(f)) |-> f[j]]

\* insert_one(d): the store assigns _id and appends
InsertOne(coll, d) == Append(coll, [d EXCEPT !._id = PyOid(Len(coll) + 1)])

\* ---------------------------------------------------------------- actions
\* a request is handed to the first task that is free
Free(t) == pc[t] = "idle" /\ \A u \in Tasks : u < t => pc[u] # "idle"

\* datetime.utcnow(): the clock has not moved since the last reading, or
\* it has
Utcnow == {n \in {now, now + 1} : n <= MaxClock}

\* faulty variant: `doc` is one module-level dict shared by the requests
SavePositionStart_SharedDoc(t, position) ==
    /\ Free(t)
    /\ RoomToWrite
    /\ op' = [op EXCEPT ![t] = "save_position"]
    /\ req' = [req EXCEPT ![t] = position]
    /\ \E n \in Utcnow :
          /\ now' = IF ~Truthy(position.timestamp) THEN n ELSE now
          /\ doc' = [u \in Tasks |->
                       IF u = t \/ (pc[u] \in {"geocode", "insert"}
                                      /\ op[u] \in {"save_position",
                                                     "update_position"})
                       THEN Doc(KeyAbsent, position.vehicle_id,
                                position.latitude, position.longitude,
                                IF ~Truthy(position.timestamp) THEN PyDate(n)
                                ELSE position.timestamp,
                                IF u = t THEN KeyAbsent
                                ELSE doc[u].live_location)
                       ELSE doc[u]]
    /\ pc' = [pc EXCEPT ![t] = "geocode"]
    /\ UNCHANGED <<positions, resp, status, result>>

\* POST /positions/ : up to the geocoding call
SavePositionStart(t, position) ==
    /\ Free(t)
    /\ RoomToWrite
    /\ op' = [op EXCEPT ![t] = "save_position"]
    /\ req' = [req EXCEPT ![t] = position]
    /\ IF ~Truthy(position.timestamp)
       THEN \E n \in Utcnow :
              /\ now' = n
              /\ doc' = [doc EXCEPT ![t] =
                           Doc(KeyAbsent, position.vehicle_id,
                               position.latitude, position.longitude,
                               PyDate(n), KeyAbsent)]
       ELSE /\ now' = now
            /\ doc' = [doc EXCEPT ![t] =
                         Doc(KeyAbsent, position.vehicle_id,
                             position.latitude, position.longitude,
                             position.timestamp, KeyAbsent)]
    /\ pc' = [pc EXCEPT ![t] = "geocode"]
    /\ UNCHANGED <<positions, resp, status, result>>

\* faulty variant: no try/except, a failed geocoding call ends the request
SavePositionGeocode_Abort(t, outcome) ==
    /\ pc[t] = "geocode"
    /\ op[t] = "save_position"
    /\ resp' = [resp EXCEPT ![t] = outcome]
    /\ IF outcome.kind # "response"
       THEN /\ status' = [status EXCEPT ![t] = 500]
            /\ result' = [result EXCEPT ![t] = ServerErrorMessage]
            /\ pc' = [pc EXCEPT ![t] = "return"]
            /\ req' = [req EXCEPT ![t] = NoReq]
            /\ doc' = [doc EXCEPT ![t] = NoDoc]
       ELSE /\ doc' = [doc EXCEPT ![t].live_location =
                         SaveLiveLocation(outcome, doc[t].latitude,
                                          doc[t].longitude)]
            /\ pc' = [pc EXCEPT ![t] = "insert"]
            /\ UNCHANGED <<req, status, result>>
    /\ UNCHANGED <<positions, now, op>>

\* the geocoding call comes back (or raises); live_location is set
SavePositionGeocode(t, outcome) ==
    /\ pc[t] = "geocode"
    /\ op[t] = "save_position"
    /\ resp' = [resp EXCEPT ![t] = outcome]
    /\ doc' = [doc EXCEPT ![t].live_location =
                 SaveLiveLocation(outcome, doc[t].latitude, doc[t].longitude)]
    /\ pc' = [pc EXCEPT ![t] = "insert"]
    /\ UNCHANGED <<positions, now, op, req, status, result>>

\* await db.vehicle_positions.insert_one(doc); a failing write propagates
SavePositionInsert(t, written) ==
    /\ pc[t] = "insert"
    /\ op[t] = "save_position"
    /\ IF written
       THEN /\ positions' = InsertOne(positions, doc[t])
            /\ status' = [status EXCEPT ![t] = 200]
            /\ result' = [result EXCEPT ![t] = SavedMessage]
       ELSE /\ positions' = positions
            /\ status' = [status EXCEPT ![t] = 500]
            /\ result' = [result EXCEPT ![t] = ServerErrorMessage]
    /\ pc' = [pc EXCEPT ![t] = "return"]
    /\ req' = [req EXCEPT ![t] = NoReq]
    /\ doc' = [doc EXCEPT ![t] = NoDoc]
    /\ UNCHANGED <<now, op, resp>>

\* the check on the payload of update_position
ValidPosition(position) ==
    ~(\/ ~Truthy(position)
      \/ position.t # "list"
      \/ Len(position.items) # 2)

\* POST /positions/update/{vehicle_id} : up to the insert
UpdatePositionStart(t, vehicle_id, payload) ==
    /\ Free(t)
    /\ op' = [op EXCEPT ![t] = "update_position"]
    /\ req' = [req EXCEPT ![t] =
                 Req(vehicle_id, PyNone, PyNone, PyNone, payload, 0)]
    /\ LET position == Get(payload)
       IN  IF ~ValidPosition(position)
           THEN /\ status' = [status EXCEPT ![t] = 400]
                /\ result' = [result EXCEPT ![t] = InvalidFormatMessage]
                /\ pc' = [pc EXCEPT ![t] = "return"]
                /\ UNCHANGED <<doc, now>>
           ELSE /\ RoomToWrite
                /\ \E n \in Utcnow :
                      /\ now' = n
                      /\ doc' = [doc EXCEPT ![t] =
                                   Doc(KeyAbsent, vehicle_id,
                                       position.items[1], position.items[2],
                                       PyDate(n), KeyAbsent)]
                /\ pc' = [pc EXCEPT ![t] = "insert"]
                /\ UNCHANGED <<status, result>>
    /\ UNCHANGED <<positions, resp>>

UpdatePositionInsert(t, written) ==
    /\ pc[t] = "insert"
    /\ op[t] = "update_position"
    /\ IF written
       THEN /\ positions' = InsertOne(positions, doc[t])
            /\ status' = [status EXCEPT ![t] = 200]
            /\ result' = [result EXCEPT ![t] = UpdatedMessage]
       ELSE /\ positions' = positions
            /\ status' = [status EXCEPT ![t] = 500]
            /\ result' = [result EXCEPT ![t] = ServerErrorMessage]
    /\ pc' = [pc EXCEPT ![t] = "return"]
    /\ req' = [req EXCEPT ![t] = NoReq]
    /\ doc' = [doc EXCEPT ![t] = NoDoc]
    /\ UNCHANGED <<now, op, resp>>

\* GET /positions/{vehicle_id}?limit=
GetPositions(t, vehicle_id, limit) ==
    /\ Free(t)
    /\ op' = [op EXCEPT ![t] = "get_positions"]
    /\ req' = [req EXCEPT ![t] =
                 Req(vehicle_id, PyNone, PyNone, PyNone, PyNone, limit)]
    /\ \E f \in SortedDescending(positions, Matching(positions, vehicle_id)) :
          result' = [result EXCEPT ![t] =
                       [j \in DOMAIN Limit(f, limit) |->
                          [positions[f[j]] EXCEPT
                             !._id = StrId(positions[f[j]]._id)]]]
    /\ status' = [status EXCEPT ![t] = 200]
    /\ pc' = [pc EXCEPT ![t] = "return"]
    /\ UNCHANGED <<positions, now, doc, resp>>

\* faulty variant: find_one without the sort gives the first matching document
FindOneLatest_Unsorted(coll, vehicle_id) ==
    {i \in Matching(coll, vehicle_id) :
        \A j \in Matching(coll, vehicle_id) : i <= j}

\* find_one({"vehicle_id": v}, sort=[("timestamp", -1)]): the documents it
\* may give, none when nothing matches
FindOneLatest(coll, vehicle_id) ==
    {i \in Matching(coll, vehicle_id) :
        \A j \in Matching(coll, vehicle_id) :
            coll[i].timestamp.n >= coll[j].timestamp.n}

\* GET /positions/latest/{vehicle_id} : find_one and what follows up to the
\* geocoding call
GetLatestPositionFind(t, vehicle_id) ==
    /\ Free(t)
    /\ op' = [op EXCEPT ![t] = "get_latest_position"]
    /\ req' = [req EXCEPT ![t] =
                 Req(vehicle_id, PyNone, PyNone, PyNone, PyNone, 0)]
    /\ IF FindOneLatest(positions, vehicle_id) = {}
       THEN /\ status' = [status EXCEPT ![t] = 404]
            /\ result' = [result EXCEPT ![t] = NotFoundMessage]
            /\ pc' = [pc EXCEPT ![t] = "return"]
            /\ doc' = doc
       ELSE \E i \in FindOneLatest(positions, vehicle_id) :
              LET pos == [positions[i] EXCEPT !._id = StrId(positions[i]._id)]
                  live_location == Get(pos.live_location)
              IN  IF ~Truthy(live_location)
                  THEN /\ doc' = [doc EXCEPT ![t] = pos]
                       /\ pc' = [pc EXCEPT ![t] = "geocode"]
                       /\ UNCHANGED <<status, result>>
                  ELSE /\ doc' = doc
                       /\ status' = [status EXCEPT ![t] = 200]
                       /\ result' = [result EXCEPT ![t] =
                            <<[pos EXCEPT !.live_location = live_location]>>]
                       /\ pc' = [pc EXCEPT ![t] = "return"]
    /\ UNCHANGED <<positions, now, resp>>

\* faulty variant: the computed live_location is written back to the stored record
GetLatestPositionGeocode_WriteBack(t, outcome) ==
    /\ pc[t] = "geocode"
    /\ op[t] = "get_latest_position"
    /\ resp' = [resp EXCEPT ![t] = outcome]
    /\ status' = [status EXCEPT ![t] = 200]
    /\ result' = [result EXCEPT ![t] =
                    <<[doc[t] EXCEPT !.live_location =
                         LatestLiveLocation(outcome, doc[t].latitude,
                                            doc[t].longitude)]>>]
    /\ positions' = [i \in DOMAIN positions |->
                       IF StrId(positions[i]._id) = doc[t]._id
                       THEN [positions[i] EXCEPT !.live_location =
                               LatestLiveLocation(outcome, doc[t].latitude,
                                                  doc[t].longitude)]
                       ELSE positions[i]]
    /\ pc' = [pc EXCEPT ![t] = "return"]
    /\ doc' = [doc EXCEPT ![t] = NoDoc]
    /\ UNCHANGED <<now, op, req>>

\* the geocoding call of get_latest_position comes back (or raises)
GetLatestPositionGeocode(t, outcome) ==
    /\ pc[t] = "geocode"
    /\ op[t] = "get_latest_position"
    /\ resp' = [resp EXCEPT ![t] = outcome]
    /\ status' = [status EXCEPT ![t] = 200]
    /\ result' = [result EXCEPT ![t] =
                    <<[doc[t] EXCEPT !.live_location =
                         LatestLiveLocation(outcome, doc[t].latitude,
                                            doc[t].longitude)]>>]
    /\ pc' = [pc EXCEPT ![t] = "return"]
    /\ doc' = [doc EXCEPT ![t] = NoDoc]
    /\ UNCHANGED <<positions, now, op, req>>

\* the response goes out and the task ends
Return(t) ==
    /\ pc[t] = "return"
    /\ pc' = [pc EXCEPT ![t] = "idle"]
    /\ op' = [op EXCEPT ![t] = "none"]
    /\ req' = [req EXCEPT ![t] = NoReq]
    /\ doc' = [doc EXCEPT ![t] = NoDoc]
    /\ resp' = [resp EXCEPT ![t] = NoResp]
    /\ status' = [status EXCEPT ![t] = 0]
    /\ result' = [result EXCEPT ![t] = <<>>]
    /\ UNCHANGED <<positions, now>>

VehiclePositions ==
    {Req(v, la, lo, ts, PyNone, 0) :
        v \in BodyVehicleIds, la \in Latitudes, lo \in Longitudes,
        ts \in ClientTimestamps}

Next ==
    \/ \E t \in Tasks, position \in VehiclePositions :
          SavePositionStart(t, position)
    \/ \E t \in Tasks, outcome \in GeoOutcomes : SavePositionGeocode(t, outcome)
    \/ \E t \in Tasks, written \in BOOLEAN : SavePositionInsert(t, written)
    \/ \E t \in Tasks, v \in PathVehicleIds, payload \in Payloads :
          UpdatePositionStart(t, v, payload)
    \/ \E t \in Tasks, written \in BOOLEAN : UpdatePositionInsert(t, written)
    \/ \E t \in Tasks, v \in PathVehicleIds, limit \in 0..MaxLimit :
          GetPositions(t, v, limit)
    \/ \E t \in Tasks, v \in PathVehicleIds : GetLatestPositionFind(t, v)
    \/ \E t \in Tasks, outcome \in GeoOutcomes :
          GetLatestPositionGeocode(t, outcome)
    \/ \E t \in Tasks : Return(t)

Spec == Init /\ [][Next]_vars



\* ================================================================ claims
Writes == {"save_position", "update_position"}
Reads == {"get_positions", "get_latest_position"}

\* the geocoding call succeeded: HTTP 200 with a well-formed body
GeocodingSucceeded(r) ==
    r.kind = "response" /\ r.status_code = 200 /\ r.wellformed
\* non-success status, transport failure, malformed response or timeout
GeocodingFailed(r) == r # NoResp /\ ~GeocodingSucceeded(r)

\* the decimal text of the coordinates used in the requests
DecimalText(v) ==
    CASE v = PyFloat(1234) -> "12.34"
      [] v = PyFloat(5678) -> "56.78"
      [] v = PyInt(12) -> "12"
      [] v = PyStr("east") -> "east"
      [] OTHER -> ""
\* "<latitude>, <longitude>"
ExpectedFallback(lat, lon) ==
    PyStr(DecimalText(lat) \o ", " \o DecimalText(lon))

\* the first non-empty string of a sequence of candidates
FirstNonEmpty(cands) ==
    LET I == {i \in DOMAIN cands : cands[i].t = "str" /\ cands[i].s # ""}
    IN  cands[CHOOSE i \in I : \A j \in I : i <= j]
\* suburb, village, town, city, county, state, display name, fallback
Candidates(data, lat, lon) ==
    LET a == IF data.hasAddress THEN data.address ELSE EmptyDict
    IN  <<a.suburb, a.village, a.town, a.city, a.county, a.state,
          data.display_name, ExpectedFallback(lat, lon)>>

\* C1: whatever the geocoding call ends in, submit goes on to the store
\* write; when the write succeeds it answers with the success confirmation
\* and the collection holds exactly one more record, and it answers with an
\* error only when the write itself failed (the collection is then as before).
C1_SubmitPersistsWhateverGeocoding ==
    [][\A t \in Tasks : op[t] = "save_position" =>
          /\ (pc[t] = "geocode" /\ pc'[t] # "geocode") =>
                /\ pc'[t] = "insert"
                /\ status'[t] = 0
                /\ positions' = positions
          /\ (pc[t] = "insert" /\ pc'[t] # "insert") =>
                /\ pc'[t] = "return"
                /\ \/ /\ status'[t] = 200
                      /\ result'[t] = SavedMessage
                      /\ Len(positions') = Len(positions) + 1
                   \/ /\ status'[t] = 500
                      /\ positions' = positions]_vars

\* a submit whose geocoding call timed out has stored its record and
\* answered with the confirmation
C1_Witness ==
    \E t \in Tasks :
        /\ op[t] = "save_position" /\ pc[t] = "return"
        /\ resp[t].kind = "ReadTimeout"
        /\ status[t] = 200
        /\ \E i \in DOMAIN positions : positions[i].vehicle_id.t = "int"

\* C2 (as claimed): every record of the collection has a non-empty
\* live_location.
C2_EveryRecordHasLiveLocation ==
    \A i \in DOMAIN positions :
        /\ positions[i].live_location.t = "str"
        /\ positions[i].live_location.s # ""

\* C2 (amended): every record stored by submit has a non-empty
\* live_location; a record stored by update has no live_location field.
C2_SubmitRecordsHaveLiveLocation ==
    [][\A t \in Tasks :
          (pc[t] = "insert" /\ pc'[t] = "return" /\ status'[t] = 200) =>
             /\ Len(positions') = Len(positions) + 1
             /\ LET stored == positions'[Len(positions')]
                IN  /\ op[t] = "save_position" =>
                          /\ stored.live_location.t = "str"
                          /\ stored.live_location.s # ""
                    /\ op[t] = "update_position" =>
                          stored.live_location = KeyAbsent]_vars

\* the collection holds a record stored by submit and one stored by update
C2_Witness ==
    /\ \E i \in DOMAIN positions :
          positions[i].vehicle_id.t = "int" /\
          positions[i].live_location.t = "str"
    /\ \E i \in DOMAIN positions :
          positions[i].vehicle_id.t = "str" /\
          positions[i].live_location = KeyAbsent

\* C3 (as claimed): when the geocoding call succeeds, the live_location
\* submit stores and latest computes is the first non-empty value in the
\* order suburb, village, town, city, county, state, display name, numeric
\* fallback.
C3_PreferenceOrderOnSuccess ==
    \A t \in Tasks :
        /\ (op[t] = "save_position" /\ pc[t] = "insert"
              /\ GeocodingSucceeded(resp[t])) =>
               doc[t].live_location =
                  FirstNonEmpty(Candidates(resp[t].data, doc[t].latitude,
                                           doc[t].longitude))
        /\ (op[t] = "get_latest_position" /\ pc[t] = "return"
              /\ GeocodingSucceeded(resp[t])) =>
               result[t][1].live_location =
                  FirstNonEmpty(Candidates(resp[t].data,
                                           result[t][1].latitude,
                                           result[t][1].longitude))

\* C4: when the geocoding call ends in a non-success status, a transport
\* failure, a malformed response or a timeout, the label is exactly
\* "<latitude>, <longitude>" of the record's own coordinates, and the handler
\* goes on without an error (submit to its store write, latest to a 200).
C4_FallbackOnGeocodingFailure ==
    [][\A t \in Tasks :
          (pc[t] = "geocode" /\ pc'[t] # "geocode"
             /\ GeocodingFailed(resp'[t])) =>
             IF op[t] = "save_position"
             THEN /\ pc'[t] = "insert"
                  /\ status'[t] = 0
                  /\ doc'[t].live_location =
                        ExpectedFallback(req[t].latitude, req[t].longitude)
             ELSE /\ pc'[t] = "return"
                  /\ status'[t] = 200
                  /\ Len(result'[t]) = 1
                  /\ result'[t][1].live_location =
                        ExpectedFallback(doc[t].latitude, doc[t].longitude)
                  /\ result'[t][1].latitude = doc[t].latitude
                  /\ result'[t][1].longitude = doc[t].longitude]_vars

\* a submit took the fallback after a 503 while a latest took it after a
\* transport failure
C4_Witness ==
    \E t, u \in Tasks :
        /\ op[t] = "save_position" /\ pc[t] = "insert"
        /\ resp[t].kind = "response" /\ resp[t].status_code = 503
        /\ doc[t].live_location = PyStr("12.34, 56.78")
        /\ op[u] = "get_latest_position" /\ pc[u] = "return"
        /\ resp[u].kind = "ConnectError"
        /\ result[u][1].live_location = PyStr("12, east")

\* a pair of numbers
IsNumericPair(position) ==
    /\ position.t = "list"
    /\ Len(position.items) = 2
    /\ \A k \in 1..2 : position.items[k].t \in {"int", "float"}

\* C5 (as claimed): update goes on to store a record only for a payload
\* whose position is a two-element numeric pair; for every other payload it
\* answers 400.
C5_OnlyNumericPairsAccepted ==
    \A t \in Tasks :
        (op[t] = "update_position" /\ req[t] # NoReq
           /\ ~IsNumericPair(req[t].position)) =>
            (pc[t] = "return" /\ status[t] = 400)


\* the documents of vehicle v in a collection
RecordsOf(coll, v) == {i \in DOMAIN coll : coll[i].vehicle_id = v}
\* the returned document d is the stored document coll[i]
Returned(d, coll, i) == [d EXCEPT !._id = coll[i]._id] = coll[i]
\* the same, but for the live_location latest may have computed
ReturnedLatest(d, coll, i) ==
    [d EXCEPT !._id = coll[i]._id,
              !.live_location = coll[i].live_location] = coll[i]

\* C6 (as claimed): for every vehicle v and every limit n >= 0, zero
\* included, list(v, n) returns only records of v, exactly
\* min(n, number of records of v) of them, the ones of greatest timestamp in
\* descending timestamp order.
C6_ListCappedNewestFirst ==
    [][\A t \in Tasks :
          (pc[t] = "idle" /\ op'[t] = "get_positions") =>
             LET v == req'[t].vehicle_id
                 n == req'[t].limit
                 R == result'[t]
                 M == RecordsOf(positions, v)
             IN  /\ status'[t] = 200
                 /\ Len(R) = IF n < Cardinality(M) THEN n ELSE Cardinality(M)
                 /\ \A j \in DOMAIN R :
                       /\ R[j].vehicle_id = v
                       /\ \E i \in M : Returned(R[j], positions, i)
                 /\ \A j, k \in DOMAIN R :
                       /\ j < k => R[j].timestamp.n >= R[k].timestamp.n
                       /\ j # k => R[j]._id # R[k]._id
                 /\ \A i \in M :
                       (\A j \in DOMAIN R : ~Returned(R[j], positions, i)) =>
                          \A j \in DOMAIN R :
                             positions[i].timestamp.n <= R[j].timestamp.n]_vars

\* C7: latest(v) answers 404 exactly when the collection holds no record of
\* v; otherwise the record it returns is a record of v whose stored
\* timestamp is maximal among the records of v, whatever the insertion order.
C7_LatestIsMaximalOrNotFound ==
    [][\A t \in Tasks :
          /\ (pc[t] = "idle" /\ op'[t] = "get_latest_position") =>
                LET v == req'[t].vehicle_id
                    M == RecordsOf(positions, v)
                    found == IF pc'[t] = "return" THEN result'[t][1]
                             ELSE doc'[t]
                IN  /\ (status'[t] = 404) <=> (M = {})
                    /\ M = {} => pc'[t] = "return"
                    /\ M # {} =>
                          /\ pc'[t] \in {"return", "geocode"}
                          /\ status'[t] = IF pc'[t] = "return" THEN 200 ELSE 0
                          /\ found.vehicle_id = v
                          /\ \E i \in M : ReturnedLatest(found, positions, i)
                          /\ \A i \in M : positions[i].timestamp.n
                                             <= found.timestamp.n
          /\ (op[t] = "get_latest_position" /\ pc[t] = "geocode"
                /\ pc'[t] # "geocode") =>
                /\ pc'[t] = "return"
                /\ status'[t] = 200
                /\ Len(result'[t]) = 1
                /\ [result'[t][1] EXCEPT
                      !.live_location = doc[t].live_location] = doc[t]]_vars

\* latest has returned the record of greatest timestamp although a record of
\* the same vehicle with a smaller timestamp was inserted after it
C7_Witness ==
    \E t \in Tasks :
        /\ op[t] = "get_latest_position" /\ pc[t] = "return"
        /\ status[t] = 200
        /\ \E i, j \in RecordsOf(positions, req[t].vehicle_id) :
              /\ i < j
              /\ positions[i].timestamp.n > positions[j].timestamp.n
              /\ ReturnedLatest(result[t][1], positions, i)

\* the path parameter that names the vehicle of a stored identifier
PathOf(vehicle_id) ==
    IF vehicle_id.t = "int" THEN PyStr(ToString(vehicle_id.n)) ELSE vehicle_id

\* C8 (as claimed): a position stored by submit for vehicle v is found by a
\* later list(v) (when within the limit) and a later latest(v) does not
\* answer 404.
C8_SubmittedPositionsAreQueryable ==
    [][\A t \in Tasks :
          (pc[t] = "idle" /\ op'[t] \in Reads) =>
             \A i \in DOMAIN positions :
                (positions[i].vehicle_id.t = "int"
                   /\ PathOf(positions[i].vehicle_id) = req'[t].vehicle_id) =>
                   IF op'[t] = "get_latest_position"
                   THEN status'[t] # 404
                   ELSE req'[t].limit >= Len(positions) =>
                           \E j \in DOMAIN result'[t] :
                              Returned(result'[t][j], positions, i)]_vars

\* C9: the collection is append-only: every record stays where it is with
\* identical fields, only a submit or an update at its store write adds a
\* record (one), and list and latest leave the collection as it is; the
\* live_location latest computes is not written back.
C9_AppendOnly ==
    [][/\ Len(positions') >= Len(positions)
       /\ \A i \in DOMAIN positions : positions'[i] = positions[i]
       /\ positions' # positions =>
             /\ Len(positions') = Len(positions) + 1
             /\ \E t \in Tasks :
                   /\ op[t] \in Writes
                   /\ pc[t] = "insert" /\ pc'[t] = "return"
       /\ \A t \in Tasks :
             ((op[t] \in Reads \/ op'[t] \in Reads) /\ pc'[t] # pc[t]) =>
                positions' = positions]_vars

\* latest has computed a live_location for a record that lacks one, and the
\* stored record still lacks it
C9_Witness ==
    \E t \in Tasks :
        /\ op[t] = "get_latest_position" /\ pc[t] = "return"
        /\ resp[t] # NoResp
        /\ result[t][1].live_location.t = "str"
        /\ \E i \in DOMAIN positions :
              /\ ReturnedLatest(result[t][1], positions, i)
              /\ positions[i].live_location = KeyAbsent

\* the local document of a write task carries the task's own request
OwnDocument(t) ==
    /\ (op[t] = "save_position" /\ pc[t] \in {"geocode", "insert"}) =>
          /\ doc[t].vehicle_id = req[t].vehicle_id
          /\ doc[t].latitude = req[t].latitude
          /\ doc[t].longitude = req[t].longitude
          /\ IF req[t].timestamp.t = "datetime"
             THEN doc[t].timestamp = req[t].timestamp
             ELSE doc[t].timestamp.t = "datetime" /\ doc[t].timestamp.n <= now
          /\ pc[t] = "geocode" => doc[t].live_location = KeyAbsent
          /\ pc[t] = "insert" =>
                /\ doc[t].live_location.s # ""
                /\ \E k \in 1..8 :
                      doc[t].live_location =
                         Candidates(resp[t].data, req[t].latitude,
                                    req[t].longitude)[k]
    /\ (op[t] = "update_position" /\ pc[t] = "insert") =>
          /\ doc[t].vehicle_id = req[t].vehicle_id
          /\ doc[t].latitude = req[t].position.items[1]
          /\ doc[t].longitude = req[t].position.items[2]
          /\ doc[t].timestamp.t = "datetime" /\ doc[t].timestamp.n <= now
          /\ doc[t].live_location = KeyAbsent

\* C10: under every interleaving of concurrent submit and update requests,
\* a task's document carries only its own request's vehicle identifier,
\* coordinates, timestamp and label, a step of one task leaves the other
\* task's locals alone, each completed write appends exactly its own
\* document (nothing lost, duplicated or mixed), and the record latest finds
\* is one of maximal stored timestamp, wherever it sits in insertion order.
C10_ConcurrentWritesAreIndependent ==
    [][\A t \in Tasks :
          /\ OwnDocument(t)'
          /\ pc'[t] # pc[t] =>
                \A u \in Tasks \ {t} :
                   /\ pc'[u] = pc[u] /\ op'[u] = op[u] /\ req'[u] = req[u]
                   /\ doc'[u] = doc[u] /\ resp'[u] = resp[u]
                   /\ status'[u] = status[u] /\ result'[u] = result[u]
          /\ (op[t] \in Writes /\ pc[t] = "insert" /\ pc'[t] = "return"
                /\ status'[t] = 200) =>
                positions' =
                   positions \o
                      <<[doc[t] EXCEPT !._id = PyOid(Len(positions) + 1)]>>
          /\ (op[t] \in Writes /\ pc[t] = "insert" /\ pc'[t] = "return"
                /\ status'[t] # 200) => positions' = positions
          /\ (pc[t] = "idle" /\ op'[t] = "get_latest_position"
                /\ status'[t] # 404) =>
                LET found == IF pc'[t] = "return" THEN result'[t][1]
                             ELSE doc'[t]
                IN  \A i \in RecordsOf(positions, req'[t].vehicle_id) :
                       positions[i].timestamp.n <= found.timestamp.n]_vars

\* two submits for the same vehicle were in flight together and the one
\* carrying the later timestamp was stored first
C10_Witness ==
    /\ \A t \in Tasks :
          op[t] = "save_position" /\ pc[t] = "return" /\ status[t] = 200
    /\ Len(positions) = 2
    /\ positions[1].vehicle_id = positions[2].vehicle_id
    /\ positions[1].timestamp.n > positions[2].timestamp.n

====
